---- MODULE Spec2Model ----
(***************************************************************************)
(* ShaderTypes.h: the record layouts shared by the CPU side (the header    *)
(* compiled without __METAL__) and the GPU side (compiled with __METAL__). *)
(* The header is translated once per context; the CPU side then fills a    *)
(* vertex buffer and a wave descriptor through field access and the GPU    *)
(* side reads the same bytes through its own translation of the header.    *)
(***************************************************************************)
EXTENDS Integers, Sequences, FiniteSets, TLC

\* Number of MeshVertex slots in the vertex buffer.
MaxVerts == 2
\* Number of CPU-side write operations in one behaviour.
MaxWrites == 2

Contexts == {"cpu", "metal"}

Max(a, b) == IF a >= b THEN a ELSE b

Range(s) == {s[k] : k \in 1..Len(s)}

----------------------------------------------------------------------------
(* Scalar values and their 32-bit encodings.                               *)
(* A float is its IEEE 754 binary32 fields; an unsigned int is its two     *)
(* 16-bit halves (so that 2^32 - 1 is representable).  Bytes are stored    *)
(* least significant first.                                                *)

F32(sign, exp, frac) == [sign |-> sign, exp |-> exp, frac |-> frac]
U32(hi, lo) == [hi |-> hi, lo |-> lo]

FZero == F32(0, 0, 0)
FOne == F32(0, 127, 0)
FPi == F32(0, 128, 4788187)
\* eight floats whose 32-bit encodings differ in every byte position
FSample(k) == F32(k % 2, 120 + k, (k * 1000003 + 4660) % 8388608)

UZero == U32(0, 0)
UMax == U32(65535, 65535)

EncodeScalar(kind, v) ==
  CASE kind = "f32" -> << v.frac % 256,
                          (v.frac \div 256) % 256,
                          (v.frac \div 65536) + 128 * (v.exp % 2),
                          (v.exp \div 2) + 128 * v.sign >>
    [] kind = "u32" -> << v.lo % 256, v.lo \div 256, v.hi % 256, v.hi \div 256 >>
    [] kind = "u16" -> << v.lo % 256, v.lo \div 256 >>

DecodeScalar(kind, b) ==
  CASE kind = "f32" -> F32(b[4] \div 128,
                           (b[4] % 128) * 2 + (b[3] \div 128),
                           (b[3] % 128) * 65536 + b[2] * 256 + b[1])
    [] kind = "u32" -> U32(b[3] + 256 * b[4], b[1] + 256 * b[2])
    [] kind = "u16" -> U32(0, b[1] + 256 * b[2])

----------------------------------------------------------------------------
(* Types known to a translation before the header's own declarations.      *)

FloatType == [kind |-> "f32", size |-> 4, align |-> 4, members |-> <<>>]
UIntType == [kind |-> "u32", size |-> 4, align |-> 4, members |-> <<>>]
UShortType == [kind |-> "u16", size |-> 2, align |-> 2, members |-> <<>>]

CompNames == <<"x", "y", "z", "w">>

\* a vector padded to a power-of-two element count and aligned to its size
PackedVector_Aligned(elem, n) ==
  LET slots == IF n = 3 THEN 4 ELSE n
  IN [kind |-> "agg", size |-> slots * elem.size, align |-> slots * elem.size,
      members |-> [k \in 1..n |-> [name |-> CompNames[k],
                                  off |-> (k - 1) * elem.size,
                                  type |-> elem]]]

\* a packed vector: n elements back to back, aligned as one element
PackedVector(elem, n) ==
  [kind |-> "agg", size |-> n * elem.size, align |-> elem.align,
   members |-> [k \in 1..n |-> [name |-> CompNames[k],
                               off |-> (k - 1) * elem.size,
                               type |-> elem]]]

Macros(ctx) == IF ctx = "metal" THEN {"__METAL__"} ELSE {}

\* the language's own types: the scalars, and in the shading language the
\* built-in packed 3-float vector (12 bytes, aligned as a float), the type
\* the header relies on when it skips its own typedef
BuiltinTypes(ctx) ==
  LET scalars == ("float" :> FloatType) @@ ("unsigned int" :> UIntType)
                   @@ ("unsigned short" :> UShortType)
  IN IF ctx = "metal"
       THEN ("packed_float3" :> PackedVector(FloatType, 3)) @@ scalars
       ELSE scalars

\* what #include <simd/simd.h> declares, of what the header uses: the packed
\* 2-float vector (8 bytes, aligned as a float) in both contexts
SimdTypes == ("simd_packed_float2" :> PackedVector(FloatType, 2))

----------------------------------------------------------------------------
(* The header, line by line.                                               *)

PackedFloat3Fields_Reversed ==
  << [name |-> "z", type |-> "float"],
     [name |-> "y", type |-> "float"],
     [name |-> "x", type |-> "float"] >>

PackedFloat3Fields_Padded ==
  << [name |-> "x", type |-> "float"],
     [name |-> "y", type |-> "float"],
     [name |-> "z", type |-> "float"],
     [name |-> "w", type |-> "float"] >>

PackedFloat3Fields ==
  << [name |-> "x", type |-> "float"],
     [name |-> "y", type |-> "float"],
     [name |-> "z", type |-> "float"] >>

PackedFloat3Typedef ==
  [kind |-> "record", keyword |-> "struct", name |-> "packed_float3",
   fields |-> PackedFloat3Fields]

MeshVertexFields_UvFirst ==
  << [name |-> "uv", type |-> "simd_packed_float2"],
     [name |-> "position", type |-> "packed_float3"],
     [name |-> "normal", type |-> "packed_float3"] >>

MeshVertexFields_NormalFirst ==
  << [name |-> "normal", type |-> "packed_float3"],
     [name |-> "position", type |-> "packed_float3"],
     [name |-> "uv", type |-> "simd_packed_float2"] >>

MeshVertexFields ==
  << [name |-> "position", type |-> "packed_float3"],
     [name |-> "normal", type |-> "packed_float3"],
     [name |-> "uv", type |-> "simd_packed_float2"] >>

MeshVertexKeyword_Union == "union"

MeshVertexKeyword == "struct"

MeshVertexDecl ==
  [kind |-> "record", keyword |-> MeshVertexKeyword, name |-> "MeshVertex",
   fields |-> MeshVertexFields]

WaveDescriptorFields_ShortCount ==
  << [name |-> "segmentCount", type |-> "unsigned short"],
     [name |-> "time", type |-> "float"],
     [name |-> "waveDensity", type |-> "float"],
     [name |-> "amplitude", type |-> "float"] >>

WaveDescriptorFields ==
  << [name |-> "segmentCount", type |-> "unsigned int"],
     [name |-> "time", type |-> "float"],
     [name |-> "waveDensity", type |-> "float"],
     [name |-> "amplitude", type |-> "float"] >>

WaveDescriptorKeyword_Union == "union"

WaveDescriptorKeyword == "struct"

WaveDescriptorDecl ==
  [kind |-> "record", keyword |-> WaveDescriptorKeyword,
   name |-> "WaveDescriptor", fields |-> WaveDescriptorFields]

Header_Unguarded ==
  << [kind |-> "pragma"],
     [kind |-> "include", file |-> "simd/simd.h"],
     PackedFloat3Typedef,
     MeshVertexDecl,
     WaveDescriptorDecl >>

Header ==
  << [kind |-> "pragma"],
     [kind |-> "include", file |-> "simd/simd.h"],
     [kind |-> "ifndef", macro |-> "__METAL__"],
     PackedFloat3Typedef,
     [kind |-> "endif"],
     MeshVertexDecl,
     WaveDescriptorDecl >>

----------------------------------------------------------------------------
(* Translating the header in one context.                                  *)

\* the lines left after conditional compilation
RECURSIVE Preprocess(_, _, _)
Preprocess(lines, macros, skip) ==
  IF lines = <<>> THEN <<>>
  ELSE LET d == Head(lines)
           rest == Tail(lines)
       IN CASE d.kind = "ifndef" -> Preprocess(rest, macros, d.macro \in macros)
            [] d.kind = "endif" -> Preprocess(rest, macros, FALSE)
            [] OTHER -> IF skip THEN Preprocess(rest, macros, skip)
                        ELSE <<d>> \o Preprocess(rest, macros, skip)

AlignUp(n, a) == ((n + a - 1) \div a) * a

\* a struct places each field at the next offset its alignment allows; a
\* union places every field at offset 0
LayoutRecord(keyword, fields, types) ==
  LET n == Len(fields)
      ty(k) == types[fields[k].type]
      end[k \in 0..n] ==
        IF k = 0 THEN 0
        ELSE IF keyword = "union" THEN Max(end[k - 1], ty(k).size)
        ELSE AlignUp(end[k - 1], ty(k).align) + ty(k).size
      start(k) == IF keyword = "union" THEN 0 ELSE AlignUp(end[k - 1], ty(k).align)
      al[k \in 0..n] == IF k = 0 THEN 1 ELSE Max(al[k - 1], ty(k).align)
  IN [kind |-> "agg", size |-> AlignUp(end[n], al[n]), align |-> al[n],
      members |-> [k \in 1..n |-> [name |-> fields[k].name,
                                  off |-> start(k),
                                  type |-> ty(k)]]]

\* a translation so far: the types in scope, where each name was defined
\* (one entry per definition), the static assertions evaluated, and whether
\* the translation is still accepted
StartUnit(ctx) ==
  [done |-> TRUE, ok |-> TRUE, checks |-> 0,
   types |-> BuiltinTypes(ctx),
   defs |-> [n \in DOMAIN BuiltinTypes(ctx) |-> <<"builtin">>]]

DeclareAll(unit, types, origin) ==
  LET old == DOMAIN unit.types
      new == DOMAIN types
  IN [unit EXCEPT
        !.ok = @ /\ (old \cap new = {}),
        !.types = types @@ unit.types,
        !.defs = [n \in old \cup new |->
                    (IF n \in old THEN unit.defs[n] ELSE <<>>)
                    \o (IF n \in new THEN <<origin>> ELSE <<>>)]]

KnownFields(unit, fields) ==
  \A k \in 1..Len(fields) : fields[k].type \in DOMAIN unit.types

TranslateDecl(unit, d) ==
  CASE d.kind = "include" -> DeclareAll(unit, SimdTypes, "simd")
    [] d.kind = "record" ->
         IF KnownFields(unit, d.fields)
           THEN DeclareAll(unit,
                           d.name :> LayoutRecord(d.keyword, d.fields, unit.types),
                           "header")
           ELSE [unit EXCEPT !.ok = FALSE]
    [] d.kind = "static_assert" -> [unit EXCEPT !.checks = @ + 1]
    [] OTHER -> unit

RECURSIVE Translate(_, _)
Translate(decls, unit) ==
  IF decls = <<>> THEN unit
  ELSE Translate(Tail(decls), TranslateDecl(unit, Head(decls)))

CompileUnit(ctx) == Translate(Preprocess(Header, Macros(ctx), FALSE), StartUnit(ctx))

NotCompiled == [done |-> FALSE, ok |-> FALSE, checks |-> 0, types |-> <<>>, defs |-> <<>>]

----------------------------------------------------------------------------
(* Field access: a record in memory is the bytes of its scalar fields at   *)
(* the offsets of the translation that accesses it.                        *)

\* the scalar fields of a type placed at base, in declaration order
RECURSIVE LeafSeq(_, _, _)
LeafSeq(desc, base, path) ==
  IF Len(desc.members) = 0
    THEN << [path |-> path, addr |-> base, kind |-> desc.kind, size |-> desc.size] >>
    ELSE LET n == Len(desc.members)
             sub[k \in 0..n] ==
               IF k = 0 THEN <<>>
               ELSE sub[k - 1] \o LeafSeq(desc.members[k].type,
                                          base + desc.members[k].off,
                                          Append(path, desc.members[k].name))
         IN sub[n]

RECURSIVE HasPath(_, _)
HasPath(v, path) ==
  IF path = <<>> THEN TRUE
  ELSE IF Head(path) \in DOMAIN v THEN HasPath(v[Head(path)], Tail(path))
  ELSE FALSE

RECURSIVE Get(_, _)
Get(v, path) == IF path = <<>> THEN v ELSE Get(v[Head(path)], Tail(path))

RECURSIVE Put(_, _, _)
Put(v, path, val) ==
  IF path = <<>> THEN val
  ELSE [v EXCEPT ![Head(path)] = Put(@, Tail(path), val)]

StoreScalar(mem, leaf, val) ==
  LET bytes == EncodeScalar(leaf.kind, val)
  IN [a \in DOMAIN mem |->
        IF a >= leaf.addr /\ a < leaf.addr + leaf.size
          THEN bytes[a - leaf.addr + 1]
          ELSE mem[a]]

LoadScalar(mem, leaf) ==
  DecodeScalar(leaf.kind, [k \in 1..leaf.size |-> mem[leaf.addr + k - 1]])

\* member-wise store of a whole record value, in declaration order
StoreRecord(mem, base, desc, v) ==
  LET leaves == LeafSeq(desc, base, <<>>)
      n == Len(leaves)
      m[k \in 0..n] ==
        IF k = 0 THEN mem
        ELSE IF HasPath(v, leaves[k].path)
          THEN StoreScalar(m[k - 1], leaves[k], Get(v, leaves[k].path))
          ELSE m[k - 1]
  IN m[n]

RECURSIVE LoadRecord(_, _, _)
LoadRecord(mem, base, desc) ==
  IF Len(desc.members) = 0
    THEN LoadScalar(mem, [addr |-> base, kind |-> desc.kind, size |-> desc.size])
    ELSE [nm \in {desc.members[k].name : k \in 1..Len(desc.members)} |->
            LET mb == CHOOSE x \in Range(desc.members) : x.name = nm
            IN LoadRecord(mem, base + mb.off, mb.type)]

\* consecutive array elements are sizeof(element) apart
Stride(desc) == desc.size

Zeroed(n) == [a \in 0..(n - 1) |-> 0]

----------------------------------------------------------------------------
(* Values the CPU side writes.                                             *)

Vec3(a, b, c) == [x |-> a, y |-> b, z |-> c]
Vec2(a, b) == [x |-> a, y |-> b]

MakeVertex(p, nrm, t) == [position |-> p, normal |-> nrm, uv |-> t]

MakeWave(count, t, density, amp) ==
  [segmentCount |-> count, time |-> t, waveDensity |-> density, amplitude |-> amp]

ZeroVertex == MakeVertex(Vec3(FZero, FZero, FZero), Vec3(FZero, FZero, FZero),
                         Vec2(FZero, FZero))
UpVertex == MakeVertex(Vec3(FZero, FZero, FZero), Vec3(FZero, FOne, FZero),
                       Vec2(FZero, FZero))
MixedVertex == MakeVertex(Vec3(FSample(1), FSample(2), FSample(3)),
                          Vec3(FSample(4), FSample(5), FSample(6)),
                          Vec2(FSample(7), FSample(8)))

ZeroWave == MakeWave(UZero, FZero, FZero, FZero)

VertexInputs == {UpVertex, MixedVertex}
CountInputs == {UZero, UMax, U32(1, 2)}
WaveInputs == {MakeWave(c, FSample(1), FSample(2), FSample(3)) : c \in CountInputs}
ScalarInputs(kind) == IF kind = "f32" THEN {FPi} ELSE {UZero, UMax}

----------------------------------------------------------------------------
VARIABLES
  tu,        \* per context: the translation of the header
  phase,     \* "init", "cpu" (the CPU side fills the buffers), "drawn"
  vmem,      \* the vertex buffer, byte by byte
  umem,      \* the wave descriptor's bytes
  lastV,     \* per vertex slot: the value last written to each field
  lastW,     \* the wave descriptor: the value last written to each field
  gpuVerts,  \* the vertices as the GPU side read them in the last draw
  gpuWave,   \* the wave descriptor as the GPU side read it in the last draw
  nwrites    \* CPU-side writes so far

vars == <<tu, phase, vmem, umem, lastV, lastW, gpuVerts, gpuWave, nwrites>>

Slots == 0..(MaxVerts - 1)

Compiled(ctx) == tu[ctx].done /\ tu[ctx].ok

TypeOf(ctx, name) == tu[ctx].types[name]

Init ==
  /\ tu = [ctx \in Contexts |-> NotCompiled]
  /\ phase = "init"
  /\ vmem = Zeroed(0)
  /\ umem = Zeroed(0)
  /\ lastV = [i \in Slots |-> ZeroVertex]
  /\ lastW = ZeroWave
  /\ gpuVerts = [i \in Slots |-> ZeroVertex]
  /\ gpuWave = ZeroWave
  /\ nwrites = 0

\* the header is compiled in one context
Compile(ctx) ==
  /\ ~tu[ctx].done
  /\ tu' = [tu EXCEPT ![ctx] = CompileUnit(ctx)]
  /\ UNCHANGED <<phase, vmem, umem, lastV, lastW, gpuVerts, gpuWave, nwrites>>

\* the application starts once both sides are built; the CPU side allocates
\* zero-filled buffers sized by its own translation
Allocate ==
  /\ phase = "init"
  /\ \A ctx \in Contexts : Compiled(ctx)
  /\ vmem' = Zeroed(MaxVerts * Stride(TypeOf("cpu", "MeshVertex")))
  /\ umem' = Zeroed(TypeOf("cpu", "WaveDescriptor").size)
  /\ phase' = "cpu"
  /\ UNCHANGED <<tu, lastV, lastW, gpuVerts, gpuWave, nwrites>>

\* vertices[i] = v
CPUWriteVertex(i, v) ==
  /\ phase = "cpu"
  /\ nwrites < MaxWrites
  /\ LET mv == TypeOf("cpu", "MeshVertex")
     IN vmem' = StoreRecord(vmem, i * Stride(mv), mv, v)
  /\ lastV' = [lastV EXCEPT ![i] = v]
  /\ nwrites' = nwrites + 1
  /\ UNCHANGED <<tu, phase, umem, lastW, gpuVerts, gpuWave>>

\* vertices[i].field.component = val
CPUWriteVertexField(i) ==
  /\ phase = "cpu"
  /\ nwrites < MaxWrites
  /\ LET mv == TypeOf("cpu", "MeshVertex")
         leaves == LeafSeq(mv, i * Stride(mv), <<>>)
     IN \E k \in 1..Len(leaves) : \E val \in ScalarInputs(leaves[k].kind) :
        /\ HasPath(lastV[i], leaves[k].path)
        /\ vmem' = StoreScalar(vmem, leaves[k], val)
        /\ lastV' = [lastV EXCEPT ![i] = Put(@, leaves[k].path, val)]
  /\ nwrites' = nwrites + 1
  /\ UNCHANGED <<tu, phase, umem, lastW, gpuVerts, gpuWave>>

\* wave = w
CPUWriteWave(w) ==
  /\ phase = "cpu"
  /\ nwrites < MaxWrites
  /\ umem' = StoreRecord(umem, 0, TypeOf("cpu", "WaveDescriptor"), w)
  /\ lastW' = w
  /\ nwrites' = nwrites + 1
  /\ UNCHANGED <<tu, phase, vmem, lastV, gpuVerts, gpuWave>>

\* wave.field = val
CPUWriteWaveField ==
  /\ phase = "cpu"
  /\ nwrites < MaxWrites
  /\ LET leaves == LeafSeq(TypeOf("cpu", "WaveDescriptor"), 0, <<>>)
     IN \E k \in 1..Len(leaves) : \E val \in ScalarInputs(leaves[k].kind) :
        /\ umem' = StoreScalar(umem, leaves[k], val)
        /\ lastW' = Put(lastW, leaves[k].path, val)
  /\ nwrites' = nwrites + 1
  /\ UNCHANGED <<tu, phase, vmem, lastV, gpuVerts, gpuWave>>

\* the buffers cross the boundary as they are; the GPU side reads every
\* vertex and the wave descriptor through its own translation
GPUDraw ==
  /\ phase = "cpu"
  /\ Compiled("metal")
  /\ LET mv == TypeOf("metal", "MeshVertex")
     IN gpuVerts' = [i \in Slots |-> LoadRecord(vmem, i * Stride(mv), mv)]
  /\ gpuWave' = LoadRecord(umem, 0, TypeOf("metal", "WaveDescriptor"))
  /\ phase' = "drawn"
  /\ UNCHANGED <<tu, vmem, umem, lastV, lastW, nwrites>>

\* the draw is over; the CPU side prepares the next frame in the same buffers
NextFrame ==
  /\ phase = "drawn"
  /\ phase' = "cpu"
  /\ gpuVerts' = [i \in Slots |-> ZeroVertex]
  /\ gpuWave' = ZeroWave
  /\ UNCHANGED <<tu, vmem, umem, lastV, lastW, nwrites>>

Next ==
  \/ \E ctx \in Contexts : Compile(ctx)
  \/ Allocate
  \/ \E i \in Slots, v \in VertexInputs : CPUWriteVertex(i, v)
  \/ \E i \in Slots : CPUWriteVertexField(i)
  \/ \E w \in WaveInputs : CPUWriteWave(w)
  \/ CPUWriteWaveField
  \/ GPUDraw
  \/ NextFrame

Spec == Init /\ [][Next]_vars

----------------------------------------------------------------------------
(* Properties.                                                             *)

Built == \A ctx \in Contexts : Compiled(ctx)
Running == phase # "init"

Mesh(ctx) == TypeOf(ctx, "MeshVertex")
Wave(ctx) == TypeOf(ctx, "WaveDescriptor")

MemberNames(desc) == [k \in 1..Len(desc.members) |-> desc.members[k].name]
MemberOffsets(desc) == [k \in 1..Len(desc.members) |-> desc.members[k].off]
MemberSizes(desc) == [k \in 1..Len(desc.members) |-> desc.members[k].type.size]
MemberKinds(desc) == [k \in 1..Len(desc.members) |-> desc.members[k].type.kind]

BytesAt(mem, a, n) == [k \in 1..n |-> mem[a + k - 1]]
Holds(mem, n) == DOMAIN mem = 0..(n - 1)

LeafBytes(leaf) == leaf.addr..(leaf.addr + leaf.size - 1)

\* the scalar fields of desc tile the bytes 0 .. size-1 without overlap
Tiles(desc) ==
  LET leaves == LeafSeq(desc, 0, <<>>)
  IN /\ \A j, k \in 1..Len(leaves) :
          j # k => LeafBytes(leaves[j]) \cap LeafBytes(leaves[k]) = {}
     /\ UNION {LeafBytes(leaves[k]) : k \in 1..Len(leaves)} = 0..(desc.size - 1)

\* C1: a record written through the CPU-side layout and read through the
\* GPU-side layout yields, field by field, the values written: after a draw
\* every vertex and the wave descriptor the GPU side read equal what the CPU
\* side last wrote.
C1_RoundTrip ==
  phase = "drawn" =>
    /\ \A i \in Slots : gpuVerts[i] = lastV[i]
    /\ gpuWave = lastW

C1_Witness ==
  /\ phase = "drawn"
  /\ lastV[0] = MixedVertex
  /\ gpuVerts[0] = MixedVertex
  /\ lastW = MakeWave(UMax, FSample(1), FSample(2), FSample(3))

\* C2: the two translations of the header agree on both records: the same
\* fields in the same order at the same offsets with the same widths and the
\* same total size, and in neither is there padding between position, normal
\* and uv.
C2_LayoutsAgree ==
  Built =>
    /\ Mesh("cpu") = Mesh("metal")
    /\ Wave("cpu") = Wave("metal")
    /\ \A ctx \in Contexts :
         LET m == Mesh(ctx).members
         IN /\ MemberNames(Mesh(ctx)) = <<"position", "normal", "uv">>
            /\ \A k \in 1..2 : m[k + 1].off = m[k].off + m[k].type.size

C2_Witness == Built /\ phase = "init"

\* C3: a MeshVertex is exactly 32 bytes, eight 4-byte floats without padding:
\* position in bytes 0..11, normal in bytes 12..23, uv in bytes 24..31 of
\* every instance.
C3_MeshVertexSize ==
  /\ \A ctx \in Contexts : Compiled(ctx) =>
       /\ Mesh(ctx).size = 32
       /\ MemberNames(Mesh(ctx)) = <<"position", "normal", "uv">>
       /\ MemberOffsets(Mesh(ctx)) = <<0, 12, 24>>
       /\ MemberSizes(Mesh(ctx)) = <<12, 12, 8>>
       /\ Len(LeafSeq(Mesh(ctx), 0, <<>>)) = 8
       /\ \A k \in 1..8 :
            LET leaf == LeafSeq(Mesh(ctx), 0, <<>>)[k]
            IN leaf.kind = "f32" /\ leaf.size = 4 /\ leaf.addr = 4 * (k - 1)
  /\ Running =>
       \A i \in Slots :
         LET base == i * Mesh("cpu").size
             v == lastV[i]
             enc(f) == EncodeScalar("f32", f)
         IN /\ BytesAt(vmem, base, 12)
                 = enc(v.position.x) \o enc(v.position.y) \o enc(v.position.z)
            /\ BytesAt(vmem, base + 12, 12)
                 = enc(v.normal.x) \o enc(v.normal.y) \o enc(v.normal.z)
            /\ BytesAt(vmem, base + 24, 8) = enc(v.uv.x) \o enc(v.uv.y)

C3_Witness == Running /\ lastV[0] = MixedVertex /\ nwrites = 1

\* C4: a WaveDescriptor is exactly 16 bytes: a 32-bit unsigned segmentCount at
\* offset 0, then the floats time at 4, waveDensity at 8 and amplitude at 12;
\* segmentCount holds every 32-bit value, 2^32 - 1 included.
C4_WaveDescriptorSize ==
  /\ \A ctx \in Contexts : Compiled(ctx) =>
       /\ Wave(ctx).size = 16
       /\ MemberNames(Wave(ctx)) = <<"segmentCount", "time", "waveDensity", "amplitude">>
       /\ MemberOffsets(Wave(ctx)) = <<0, 4, 8, 12>>
       /\ MemberSizes(Wave(ctx)) = <<4, 4, 4, 4>>
       /\ MemberKinds(Wave(ctx)) = <<"u32", "f32", "f32", "f32">>
  /\ Running =>
       /\ BytesAt(umem, 0, 4) = EncodeScalar("u32", lastW.segmentCount)
       /\ BytesAt(umem, 4, 4) = EncodeScalar("f32", lastW.time)
       /\ BytesAt(umem, 8, 4) = EncodeScalar("f32", lastW.waveDensity)
       /\ BytesAt(umem, 12, 4) = EncodeScalar("f32", lastW.amplitude)
  /\ phase = "drawn" => gpuWave.segmentCount = lastW.segmentCount

C4_Witness ==
  /\ phase = "drawn"
  /\ lastW.segmentCount = UMax
  /\ gpuWave.segmentCount = UMax
  /\ BytesAt(umem, 0, 4) = <<255, 255, 255, 255>>

\* C5: the header carries a static size/offset assertion: every accepted
\* compilation of it has evaluated at least one, so that a compilation whose
\* layout differs from the expected one is rejected.
C5_StaticAssertChecked ==
  \A ctx \in Contexts : Compiled(ctx) => tu[ctx].checks > 0

\* the bytes of a MeshVertex with position (0,0,0), normal (0,1,0), uv (0,0):
\* 0x3F800000, least significant byte first, at offsets 16..19
UpVertexBytes == [k \in 0..31 |-> IF k = 18 THEN 128 ELSE IF k = 19 THEN 63 ELSE 0]

\* C6: a MeshVertex with position (0,0,0), normal (0,1,0) and uv (0,0) is one
\* fixed 32-byte sequence, the same on the producer and the consumer side:
\* bytes 16..19 hold the encoding of 1.0 and every other byte is zero.
C6_UpVertexBytes ==
  /\ Built =>
       \A ctx \in Contexts :
         StoreRecord(Zeroed(Mesh(ctx).size), 0, Mesh(ctx), UpVertex) = UpVertexBytes
  /\ Running =>
       \A i \in Slots : lastV[i] = UpVertex =>
         /\ [k \in 0..31 |-> vmem[32 * i + k]] = UpVertexBytes
         /\ DecodeScalar("f32", BytesAt(vmem, 32 * i + 16, 4)) = FOne
         /\ phase = "drawn" => gpuVerts[i] = UpVertex

C6_Witness ==
  /\ phase = "drawn"
  /\ lastV[1] = UpVertex
  /\ gpuVerts[1] = UpVertex
  /\ nwrites = 1

\* C7: a WaveDescriptor with segmentCount = 0 is accepted: writing it is
\* possible whenever a write is, nothing guards the value, and it reads back
\* with segmentCount 0 and time, waveDensity and amplitude as written, on the
\* CPU side and after a draw on the GPU side.
C7_ZeroSegmentCount ==
  /\ (phase = "cpu" /\ nwrites < MaxWrites) =>
       \A w \in WaveInputs : w.segmentCount = UZero => ENABLED CPUWriteWave(w)
  /\ (Running /\ lastW.segmentCount = UZero) =>
       /\ LoadRecord(umem, 0, Wave("cpu")) = lastW
       /\ phase = "drawn" => gpuWave = lastW

C7_Witness ==
  /\ phase = "drawn"
  /\ lastW = MakeWave(UZero, FSample(1), FSample(2), FSample(3))
  /\ gpuWave = lastW

\* C8: in every context exactly one definition of packed_float3 is in effect:
\* without __METAL__ the header's struct of three floats x, y, z (12 bytes,
\* offsets 0, 4, 8, alignment 4), with __METAL__ the built-in packed vector
\* and not the header's struct; the two have the same size, alignment and
\* component order.
C8_OnePackedFloat3 ==
  /\ \A ctx \in Contexts : tu[ctx].done =>
       /\ tu[ctx].ok
       /\ tu[ctx].defs["packed_float3"]
            = IF "__METAL__" \in Macros(ctx) THEN <<"builtin">> ELSE <<"header">>
  /\ tu["cpu"].done =>
       LET t == TypeOf("cpu", "packed_float3")
       IN /\ t.size = 12
          /\ t.align = 4
          /\ MemberNames(t) = <<"x", "y", "z">>
          /\ MemberOffsets(t) = <<0, 4, 8>>
          /\ MemberKinds(t) = <<"f32", "f32", "f32">>
  /\ Built =>
       LET c == TypeOf("cpu", "packed_float3")
           g == TypeOf("metal", "packed_float3")
       IN /\ c.size = g.size
          /\ c.align = g.align
          /\ MemberNames(c) = MemberNames(g)
          /\ MemberOffsets(c) = MemberOffsets(g)

C8_Witness == Built /\ phase = "cpu" /\ nwrites = 0

\* C9: in the vertex buffer the element stride is the record size, 32, with no
\* tail padding on either side: vertex i occupies exactly bytes 32*i ..
\* 32*i+31, and the i-th vertex the CPU side wrote is the i-th vertex the GPU
\* side reads.
C9_ArrayStride ==
  /\ \A ctx \in Contexts : Compiled(ctx) =>
       /\ Stride(Mesh(ctx)) = 32
       /\ \A i \in Slots :
            UNION {LeafBytes(l) : l \in Range(LeafSeq(Mesh(ctx), i * Stride(Mesh(ctx)), <<>>))}
              = (32 * i)..(32 * i + 31)
  /\ Running =>
       /\ Holds(vmem, 32 * MaxVerts)
       /\ \A i \in Slots :
            /\ LoadRecord(vmem, 32 * i, Mesh("metal")) = lastV[i]
            /\ LoadRecord(vmem, 32 * i, Mesh("cpu")) = lastV[i]
  /\ phase = "drawn" => \A i \in Slots : gpuVerts[i] = lastV[i]

C9_Witness ==
  /\ phase = "drawn"
  /\ lastV[0] = MixedVertex /\ lastV[1] = UpVertex
  /\ gpuVerts[0] = MixedVertex /\ gpuVerts[1] = UpVertex

\* C10: the byte ranges of the fields of a record are pairwise disjoint and
\* cover it, so each field holds the value last written to it and a write to
\* one field changes no other field.
C10_FieldFrame ==
  /\ \A ctx \in Contexts : Compiled(ctx) => Tiles(Mesh(ctx)) /\ Tiles(Wave(ctx))
  /\ Running =>
       /\ \A i \in Slots :
            LET leaves == LeafSeq(Mesh("cpu"), i * Stride(Mesh("cpu")), <<>>)
            IN \A k \in 1..Len(leaves) :
                 LoadScalar(vmem, leaves[k]) = Get(lastV[i], leaves[k].path)
       /\ LET leaves == LeafSeq(Wave("cpu"), 0, <<>>)
          IN \A k \in 1..Len(leaves) :
               LoadScalar(umem, leaves[k]) = Get(lastW, leaves[k].path)

C10_Witness ==
  /\ phase = "cpu"
  /\ nwrites = 2
  /\ lastV[0] = Put(Put(ZeroVertex, <<"position", "x">>, FPi), <<"normal", "z">>, FPi)
  /\ lastV[1] = ZeroVertex

====
